---- MODULE Spec2Model ----
(***************************************************************************)
(* A model of the particle library: ParticleSystem (core/ParticleSystem.ts)*)
(* and ModelGenerator (generators/ModelGenerator.ts).                      *)
(*                                                                         *)
(* Numbers are fixed point: one unit of the model is 0.001 of the program's*)
(* unit (Unit == 1000 stands for 1.0).  NaN is a distinguished value that  *)
(* every arithmetic helper propagates and every comparison rejects, as     *)
(* IEEE arithmetic does.  Float32Array buffers are flat sequences of such  *)
(* numbers, 1-based here where the program is 0-based.                     *)
(***************************************************************************)
EXTENDS Integers, Sequences, FiniteSets, TLC

(***************************************************************************)
(* Bounds of the model                                                     *)
(***************************************************************************)
\* number of update() calls explored on one ParticleSystem
MaxTicks == 2
\* number of updatePositions/updateColors/updateSizes calls explored
MaxSwaps == 1
\* number of generate()/generateOnSurface() calls explored on one page
MaxCalls == 1
\* largest options.count SphereGenerator is called with
MaxSphereCount == 20
\* number of generate()/generateOnSurface() calls explored on a page that
\* loads many small models
MaxCacheCalls == 11
\* number of requestAnimationFrame calls explored on one ParticleWeaver
MaxFrames == 3
\* number of window resize events explored on one ParticleWeaver
MaxEvents == 1

(***************************************************************************)
(* State                                                                   *)
(*                                                                         *)
(* Arrays that the program shares by reference live in `heap`; a field     *)
(* that holds an array holds its index in `heap`, so that two fields       *)
(* naming the same array is visible in the state.                          *)
(***************************************************************************)
\* a ParticleSystem
VARIABLES
  psState,        \* "new" before the constructor ran, then "live" or "failed"
  heap,           \* the position arrays in use: 1 the constructor's argument, 2
                  \* this.animatedPositions, 3 the last updatePositions argument
  dataPositions,  \* this.data.positions: index in heap
  attrPosition,   \* geometry.getAttribute('position').array: index in heap
  dataColors,     \* this.data.colors
  attrColors,     \* geometry.getAttribute('color').array
  dataSizes,      \* this.data.sizes
  attrSizes,      \* geometry.getAttribute('aSize').array
  dataCount,      \* this.data.count
  psOptions,      \* this.options after the defaults were merged
  time,           \* this.time
  ticks,          \* number of update() calls made
  swaps,          \* number of updatePositions/updateColors/updateSizes calls made
  lastOp,         \* the last operation called
  connections,    \* the numbers initConnections pushed (the line segments)
  connectionPairs, \* the index pair (i, j) each push of initConnections was made for
  givenPositions, \* the positions the caller last handed over (to the constructor
                  \* or to updatePositions), as they were at that call
  mousePosition   \* the pointer's world point in the last update() call

psVars == <<psState, heap, dataPositions, attrPosition, dataColors, attrColors,
            dataSizes, attrSizes, dataCount, psOptions, time, ticks, swaps, lastOp,
            connections, connectionPairs, givenPositions, mousePosition>>

\* the ModelGenerator class and the call in flight
VARIABLES
  modelCache,      \* ModelGenerator.modelCache: the URLs it has a scene for
  mgPc,            \* where the call in flight is: "idle", "loading", "extracting",
                   \* "raycasting", "done" (returned) or "failed" (threw)
  mgCall,          \* the method called and its options
  scene,           \* the scene the call works on
  totalVertexCount,
  samplingStep,
  nodeIdx,         \* the node the second pass of extractVertices visits next
  vertices,        \* the numbers extracted so far
  resample,        \* what resampleVertices did in this call, if it ran
  returned,        \* the buffer extractVertices returned in this call
  result,          \* the buffer the call returned
  mgError,         \* the error the call threw
  warnings,        \* the console.warn signals of this call
  placed,          \* generateOnSurface: points placed by ray hits
  attempts,        \* generateOnSurface: rays cast
  surface,         \* generateOnSurface: the output buffer (positions)
  calls            \* number of calls started

mgVars == <<modelCache, mgPc, mgCall, scene, totalVertexCount, samplingStep, nodeIdx,
            vertices, resample, returned, result, mgError, warnings, placed,
            attempts, surface, calls>>

\* resampleVertices applied twice
VARIABLES
  rsInput,    \* the buffer resampleVertices is first applied to
  rsTarget,   \* the target count of both applications
  rsOnce,     \* what the first application returned
  rsTwice,    \* what the second application returned
  rsPc        \* how many applications were made

rsVars == <<rsInput, rsTarget, rsOnce, rsTwice, rsPc>>

\* a SphereGenerator call
VARIABLES
  sgPc,       \* "idle" before the call, "done" after it returned
  sgCall,     \* the method called and its options
  sgResult    \* the buffer the call returned

sgVars == <<sgPc, sgCall, sgResult>>

\* a ParticleWeaver
VARIABLES
  pwState,    \* "new" before the constructor ran, then "ready" or "failed"
  pwGiven,    \* the options the constructor was called with
  pwOptions,  \* this.options: what mergeDefaultOptions returned
  pwCount,    \* the count of the particle data createParticleSystem built
  pwSizes,    \* the sizes initializeParticleProperties wrote
  pwError,    \* the error the constructor threw
  pwRenderer, \* this.renderer: "none", "created" or "disposed"
  pwCanvasAttached, \* whether renderer.domElement is a child of the target
  pwListeners,      \* the event listeners registered on window and on the canvas
  pwBinds,          \* how many functions this.handleResize.bind(this) has made
  animationId,      \* this.animationId (0 for null)
  pwFrameQueue,     \* the browser's scheduled animation frame callbacks (their ids)
  pwFrames,         \* number of requestAnimationFrame calls made (the last id)
  isDisposed,       \* this.isDisposed
  particleSystem,   \* this.particleSystem: "none", "live" or "disposed"
  pwSceneObjects,   \* number of objects added to the scene
  pwLoad,           \* the model generation the constructor started: "none",
                    \* "pending", "loaded" or "failed"
  pwLogged,         \* the console.error messages
  pwUpdates,        \* number of particleSystem.update calls animate() made
  pwRenders,        \* number of renderer.render calls animate() made
  pwResizes,        \* number of resize handlers that ran
  isMouseTracking   \* this.isMouseTracking

pwVars == <<pwState, pwGiven, pwOptions, pwCount, pwSizes, pwError, pwRenderer,
            pwCanvasAttached, pwListeners, pwBinds, animationId, pwFrameQueue, pwFrames,
            isDisposed, particleSystem, pwSceneObjects, pwLoad, pwLogged, pwUpdates,
            pwRenders, pwResizes, isMouseTracking>>

\* a SphereGenerator.generateVolume call
VARIABLES
  vgPc,        \* "idle" before the call, "sampling" inside the loops, "done" after
  vgCall,      \* the options of the call
  vgStream,    \* the values Math.random() returns during the call
  vgRandomAt,  \* the position in vgStream of the next Math.random() call
  vgIndex,     \* i of the outer loop: the points stored so far
  vgPositions  \* the buffer (positions)

vgVars == <<vgPc, vgCall, vgStream, vgRandomAt, vgIndex, vgPositions>>

vars == <<psVars, mgVars, rsVars, sgVars, pwVars, vgVars>>

(***************************************************************************)
(* Fixed-point arithmetic                                                  *)
(***************************************************************************)
\* the fixed-point scale: Unit stands for 1.0
Unit == 10 * 100
NaN == 0 - 999999999
\* Infinity: a value above every number the model computes
Infinity == 0 - NaN

IsNaN(x) == x = NaN

Min(a, b) == IF a <= b THEN a ELSE b
Max(a, b) == IF a >= b THEN a ELSE b
Abs(a) == IF a < 0 THEN 0 - a ELSE a

\* ceiling of a / b for a >= 0, b > 0 (Math.ceil of a quotient)
CeilDiv(a, b) == (a + b - 1) \div b

\* quotient rounded toward zero
Quot(a, b) == IF (a >= 0) = (b > 0) THEN Abs(a) \div Abs(b) ELSE 0 - (Abs(a) \div Abs(b))

FAdd(a, b) == IF IsNaN(a) \/ IsNaN(b) THEN NaN ELSE a + b
FSub(a, b) == IF IsNaN(a) \/ IsNaN(b) THEN NaN ELSE a - b
\* product of two fixed-point numbers
FMul(a, b) == IF IsNaN(a) \/ IsNaN(b) THEN NaN ELSE Quot(a * b, Unit)
\* quotient of two fixed-point numbers; 0/0 is NaN
FDiv(a, b) == IF IsNaN(a) \/ IsNaN(b) \/ b = 0 THEN NaN ELSE Quot(a * Unit, b)
\* a < b as the program evaluates it: false when either side is NaN
FLess(a, b) == ~IsNaN(a) /\ ~IsNaN(b) /\ a < b

RECURSIVE SqrtIter(_, _, _)
SqrtIter(n, lo, hi) ==
  IF lo >= hi THEN lo
  ELSE LET mid == (lo + hi + 1) \div 2
       IN IF mid * mid <= n THEN SqrtIter(n, mid, hi) ELSE SqrtIter(n, lo, mid - 1)

\* Math.sqrt of a sum of squares of fixed-point numbers, rounded down
FSqrt(n) == IF IsNaN(n) THEN NaN ELSE SqrtIter(n, 0, 40000)

FSquare(a) == IF IsNaN(a) THEN NaN ELSE a * a

\* Math.PI in fixed point
Pi == (3142 * Unit) \div (10 * 100)

\* sin on [0, Pi] by Bhaskara's rational approximation, in fixed point
SinHalf(x) ==
  LET p == (x * (Pi - x)) \div Unit
  IN (16 * Unit * p) \div (((5 * Pi * Pi) \div Unit) - 4 * p)

\* Math.sin
Sin(x) ==
  IF IsNaN(x) THEN NaN
  ELSE LET r == x % (2 * Pi)
       IN IF r <= Pi THEN SinHalf(r) ELSE 0 - SinHalf(r - Pi)

\* Math.cos
Cos(x) == IF IsNaN(x) THEN NaN ELSE Sin(x + (Pi \div 2))

(***************************************************************************)
(* Buffers                                                                 *)
(***************************************************************************)
\* a typed-array read: an index outside the array reads undefined, which
\* every numeric use turns into NaN
ReadAt(buf, k) == IF k >= 1 /\ k <= Len(buf) THEN buf[k] ELSE NaN

\* new Float32Array(n): n zeros
Zeros(n) == [k \in 1..n |-> 0]


(***************************************************************************)
(* ParticleSystem (core/ParticleSystem.ts)                                 *)
(***************************************************************************)
\* position buffers a caller hands over (3 numbers per particle; the last one
\* is malformed)
PositionInputs ==
  { <<0, 0, 0>>,
    <<0, 0, 0, Unit, 0, 0>>,
    <<Unit \div 2, 0 - Unit, 0, 0, 2 * Unit, Unit>>,
    <<0, 0>> }

CountInputs == {1, 2}
SpeedInputs == {0, Unit \div 2, Unit}
DeltaTimes == {0, Unit \div 2}
\* the pointer's world point after unprojection, or NoPointer when update() is
\* called without mousePosition or without camera
NoPointer == <<>>
PointerInputs == {NoPointer, <<0, 0, 0>>, <<9 * Unit, 9 * Unit, 0>>}

\* the option defaults of the constructor
DefaultOptions ==
  [animated |-> FALSE, animationSpeed |-> Unit, animationRadius |-> Unit \div 10,
   connected |-> FALSE, connectionDistance |-> Unit,
   interactive |-> FALSE, mouseInfluence |-> Unit, mouseRadius |-> 2 * Unit]

\* { ...defaults, ...options }: the caller's keys win
MergeOptions(given) ==
  [k \in DOMAIN DefaultOptions |-> IF k \in DOMAIN given THEN given[k] ELSE DefaultOptions[k]]

\* this.animatedPositions = new Float32Array(this.data.positions): a copy
AnimatedCopy(positions) == [k \in 1..Len(positions) |-> positions[k]]

\* the three validations of initGeometry
GeometryValid(positions, colors, sizes, count) ==
  /\ Len(positions) % 3 = 0
  /\ Len(colors) = count * 3
  /\ Len(sizes) = count

\* x || fallback for a number: 0 (and NaN) are falsy
OrDefault(x, fallback) == IF x = 0 \/ IsNaN(x) THEN fallback ELSE x

\* the squared distance initConnections takes the root of; a coordinate read
\* past the end of the array is undefined and makes it NaN
DistanceSquared(positions, i, j) ==
  FAdd(FAdd(FSquare(FSub(ReadAt(positions, j * 3 + 1), ReadAt(positions, i * 3 + 1))),
            FSquare(FSub(ReadAt(positions, j * 3 + 2), ReadAt(positions, i * 3 + 2)))),
       FSquare(FSub(ReadAt(positions, j * 3 + 3), ReadAt(positions, i * 3 + 3))))

\* this.options.connectionDistance || 1.0
MaxDistance(options) == OrDefault(options.connectionDistance, Unit)

\* distance <= maxDistance, decided on the squares (the root is monotone);
\* false when the distance is NaN
WithinDistance(distanceSquared, maxDistance) ==
  /\ ~IsNaN(distanceSquared)
  /\ maxDistance >= 0
  /\ maxDistance = Infinity \/ distanceSquared <= maxDistance * maxDistance

\* the first j of the inner loop of initConnections
InnerStart_same(i) == i
InnerStart(i) == i + 1

RECURSIVE ScanPairs(_, _, _, _, _)
\* the two loops of initConnections from (i, j) on: the pairs it pushes
ScanPairs(positions, count, maxDistance, i, j) ==
  IF i >= count THEN <<>>
  ELSE IF j >= count THEN ScanPairs(positions, count, maxDistance, i + 1, InnerStart(i + 1))
  ELSE (IF WithinDistance(DistanceSquared(positions, i, j), maxDistance)
        THEN << <<i, j>> >> ELSE <<>>)
       \o ScanPairs(positions, count, maxDistance, i, j + 1)

\* initConnections: the pairs whose endpoints it pushes, in the order of the pushes
ConnectionPairs(positions, count, options) ==
  ScanPairs(positions, count, MaxDistance(options), 0, InnerStart(0))

\* positions.push(x1, y1, z1, x2, y2, z2) for every pair
SegmentsOf(positions, pairs) ==
  [k \in 1..(6 * Len(pairs)) |->
     LET pair == pairs[((k - 1) \div 6) + 1]
         c == (k - 1) % 6
     IN ReadAt(positions, (IF c < 3 THEN pair[1] ELSE pair[2]) * 3 + (c % 3) + 1)]

Construct(positions, colors, sizes, count, given) ==
  /\ psState = "new"
  /\ lastOp' = "construct"
  /\ psOptions' = MergeOptions(given)
  /\ dataCount' = count
  /\ dataColors' = colors
  /\ dataSizes' = sizes
  /\ heap' = <<positions, AnimatedCopy(positions)>>
  /\ dataPositions' = 1
  /\ givenPositions' = positions
  /\ IF GeometryValid(positions, colors, sizes, count)
     THEN /\ psState' = "live"
          /\ attrPosition' = 2
          /\ attrColors' = colors
          /\ attrSizes' = sizes
          /\ connectionPairs' = IF MergeOptions(given).connected
                                THEN ConnectionPairs(positions, count, MergeOptions(given))
                                ELSE <<>>
          /\ connections' = SegmentsOf(positions, connectionPairs')
     ELSE /\ psState' = "failed"
          /\ UNCHANGED <<attrPosition, attrColors, attrSizes, connections, connectionPairs>>
  /\ UNCHANGED <<time, ticks, swaps, mousePosition>>
  /\ UNCHANGED <<mgVars, rsVars, sgVars, pwVars, vgVars>>

\* the early return of update()
UpdateSkips_never(options) == FALSE
UpdateSkips(options) == ~options.animated /\ ~options.interactive

\* the position update() computes for particle i (0-based) from the reference
\* positions, the accumulated time and the pointer
NewPosition(reference, i, now, pointer, options) ==
  LET i3 == i * 3
      originalX == ReadAt(reference, i3 + 1)
      originalY == ReadAt(reference, i3 + 2)
      originalZ == ReadAt(reference, i3 + 3)
      animRadius == OrDefault(options.animationRadius, Unit \div 10)
      floatX == IF options.animated
                THEN FAdd(originalX, FMul(Sin(now + (i * Unit) \div 10), animRadius))
                ELSE originalX
      floatY == IF options.animated
                THEN FAdd(originalY, FMul(FMul(Cos(now + (i * 15 * Unit) \div 100), animRadius), Unit \div 2))
                ELSE originalY
      floatZ == IF options.animated
                THEN FAdd(originalZ, FMul(FMul(Sin(now + (i * 2 * Unit) \div 10), animRadius), (3 * Unit) \div 10))
                ELSE originalZ
      mouseInfluence == OrDefault(options.mouseInfluence, Unit)
      mouseRadius == OrDefault(options.mouseRadius, 2 * Unit)
      dx == IF pointer = NoPointer THEN NaN ELSE FSub(floatX, pointer[1])
      dy == IF pointer = NoPointer THEN NaN ELSE FSub(floatY, pointer[2])
      dz == IF pointer = NoPointer THEN NaN ELSE FSub(floatZ, pointer[3])
      distance == FSqrt(FAdd(FAdd(FSquare(dx), FSquare(dy)), FSquare(dz)))
      force == FMul(FMul(FSub(Unit, FDiv(distance, mouseRadius)), mouseInfluence), Unit \div 10)
      pushed == options.interactive /\ pointer # NoPointer /\ FLess(distance, mouseRadius)
  IN <<IF pushed THEN FAdd(floatX, FMul(FDiv(dx, distance), force)) ELSE floatX,
       IF pushed THEN FAdd(floatY, FMul(FDiv(dy, distance), force)) ELSE floatY,
       IF pushed THEN FAdd(floatZ, FMul(FDiv(dz, distance), force)) ELSE floatZ>>

\* positionAttribute.setXYZ(i, ...) for every i < count: writes outside the
\* array are dropped
WrittenPositions(target, reference, count, now, pointer, options) ==
  [k \in 1..Len(target) |->
     IF k <= 3 * count
     THEN NewPosition(reference, (k - 1) \div 3, now, pointer, options)[((k - 1) % 3) + 1]
     ELSE target[k]]

Update(deltaTime, pointer) ==
  /\ psState = "live"
  /\ ticks < MaxTicks
  /\ ticks' = ticks + 1
  /\ lastOp' = "update"
  /\ mousePosition' = pointer
  /\ IF UpdateSkips(psOptions)
     THEN UNCHANGED <<time, heap>>
     ELSE LET now == time + (deltaTime * OrDefault(psOptions.animationSpeed, Unit)) \div Unit
          IN /\ time' = now
             /\ heap' = [heap EXCEPT ![attrPosition] =
                           WrittenPositions(heap[attrPosition], heap[dataPositions],
                                            dataCount, now, pointer, psOptions)]
  /\ UNCHANGED <<psState, dataPositions, attrPosition, dataColors, attrColors,
                 dataSizes, attrSizes, dataCount, psOptions, swaps>>
  /\ UNCHANGED <<connections, connectionPairs, givenPositions>>
  /\ UNCHANGED <<mgVars, rsVars, sgVars, pwVars, vgVars>>

UpdatePositions(newPositions) ==
  /\ psState = "live"
  /\ swaps < MaxSwaps
  /\ swaps' = swaps + 1
  /\ lastOp' = "updatePositions"
  /\ heap' = <<heap[1], heap[2], newPositions>>
  /\ dataPositions' = 3
  /\ attrPosition' = 3
  /\ givenPositions' = newPositions
  /\ UNCHANGED <<psState, dataColors, attrColors, dataSizes, attrSizes, dataCount,
                 psOptions, time, ticks>>
  /\ UNCHANGED <<connections, connectionPairs, mousePosition>>
  /\ UNCHANGED <<mgVars, rsVars, sgVars, pwVars, vgVars>>

UpdateColors(newColors) ==
  /\ psState = "live"
  /\ swaps < MaxSwaps
  /\ swaps' = swaps + 1
  /\ lastOp' = "updateColors"
  /\ dataColors' = newColors
  /\ attrColors' = newColors
  /\ UNCHANGED <<psState, heap, dataPositions, attrPosition, dataSizes, attrSizes,
                 dataCount, psOptions, time, ticks>>
  /\ UNCHANGED <<connections, connectionPairs, givenPositions, mousePosition>>
  /\ UNCHANGED <<mgVars, rsVars, sgVars, pwVars, vgVars>>

UpdateSizes(newSizes) ==
  /\ psState = "live"
  /\ swaps < MaxSwaps
  /\ swaps' = swaps + 1
  /\ lastOp' = "updateSizes"
  /\ dataSizes' = newSizes
  /\ attrSizes' = newSizes
  /\ UNCHANGED <<psState, heap, dataPositions, attrPosition, dataColors, attrColors,
                 dataCount, psOptions, time, ticks>>
  /\ UNCHANGED <<connections, connectionPairs, givenPositions, mousePosition>>
  /\ UNCHANGED <<mgVars, rsVars, sgVars, pwVars, vgVars>>

ColorInputs == {Zeros(3), Zeros(6)}
SizeInputs == {<<Unit>>, <<Unit, Unit>>}
OptionInputs ==
  { [animated |-> a, interactive |-> m, animationSpeed |-> s] :
      a \in BOOLEAN, m \in BOOLEAN, s \in SpeedInputs }

PSInit ==
  /\ psState = "new"
  /\ heap = <<>>
  /\ dataPositions = 0
  /\ attrPosition = 0
  /\ dataColors = <<>>
  /\ attrColors = <<>>
  /\ dataSizes = <<>>
  /\ attrSizes = <<>>
  /\ dataCount = 0
  /\ psOptions = DefaultOptions
  /\ time = 0
  /\ ticks = 0
  /\ swaps = 0
  /\ lastOp = "none"
  /\ connections = <<>>
  /\ connectionPairs = <<>>
  /\ givenPositions = <<>>
  /\ mousePosition = NoPointer

PSNext ==
  \/ \E p \in PositionInputs, c \in ColorInputs, s \in SizeInputs, n \in CountInputs,
        o \in OptionInputs : Construct(p, c, s, n, o)
  \/ \E dt \in DeltaTimes, m \in PointerInputs : Update(dt, m)
  \/ \E p \in PositionInputs : UpdatePositions(p)
  \/ \E c \in ColorInputs : UpdateColors(c)
  \/ \E s \in SizeInputs : UpdateSizes(s)


(***************************************************************************)
(* ModelGenerator (generators/ModelGenerator.ts)                           *)
(***************************************************************************)
\* the extraction ceiling of extractVertices
maxVertices == 15000
\* the element budget extractVertices checks before it builds the buffer
maxElements == 60000
\* the resample ceiling of resampleVertices
maxParticles == 1000
\* the element budget resampleVertices checks
maxTargetElements == 50000
\* the size below which generate() adds a model to the cache
cacheLimit == 10

\* A model URL is a sequence of tokens; its last token is the file extension.
\* toLowerCase() on the tokens the model uses
LowerCase(token) ==
  CASE token = ".GLB" -> ".glb"
    [] token = ".GLTF" -> ".gltf"
    [] OTHER -> token

\* isValidModelUrl: some supported format occurs in the lower-cased URL
isValidModelUrl(url) ==
  \E format \in {".gltf", ".glb"} : \E k \in 1..Len(url) : LowerCase(url[k]) = format

\* A loaded scene is the sequence of the nodes traverse() visits.  A node is a
\* Mesh or not, has a 'position' attribute or not, and has `count` vertices;
\* `tz` is the translation of its matrixWorld.
Node(isMesh, hasPosition, count, tz) ==
  [mesh |-> isMesh, position |-> hasPosition, count |-> count, tz |-> tz]

Group == Node(FALSE, FALSE, 0, 0)

\* what the loader yields for each URL the model uses
SceneAt(url) ==
  CASE url[1] = "empty" -> <<Group>>
    [] url[1] = "bare"  -> <<Group, Node(TRUE, FALSE, 0, Unit)>>
    [] url[1] = "tri"   -> <<Group, Node(TRUE, TRUE, 3, Unit)>>
    [] url[1] = "pair"  -> <<Node(TRUE, TRUE, 2, Unit), Group, Node(TRUE, TRUE, 3, 2 * Unit)>>
    [] url[1] = "mid"   -> <<Node(TRUE, TRUE, 1200, Unit)>>
    [] url[1] = "brim"  -> <<Node(TRUE, TRUE, 15000, Unit)>>
    [] url[1] = "big"   -> <<Node(TRUE, TRUE, 14999, Unit), Node(TRUE, TRUE, 14999, 2 * Unit),
                            Node(TRUE, TRUE, 1, 3 * Unit), Node(TRUE, TRUE, 1, 4 * Unit)>>
    [] url[1] = "huge"  -> <<Node(TRUE, TRUE, 50000, Unit)>>
    [] OTHER -> <<>>

\* URLs whose download fails
FailingUrls == {<<"missing", ".glb">>}

SmallUrls == {<<"empty", ".glb">>, <<"bare", ".gltf">>, <<"tri", ".GLB">>, <<"pair", ".glb">>}
LargeUrls == {<<"mid", ".glb">>, <<"brim", ".glb">>, <<"big", ".glb">>, <<"huge", ".glb">>}
UnsupportedUrls == {<<"model", ".obj">>}

\* options.scale: 0 stands for an absent scale
ScaleInputs == {0, 2 * Unit}
\* options.particleCount: 0 stands for an absent particleCount
ParticleCountInputs == {0, 2, 4, 1001}
LargeCountInputs == {0, 2, 1001, 20000}
\* the options generate() is called with
GenerateInputs ==
  {[url |-> u, scale |-> s, particleCount |-> k] :
     u \in SmallUrls \cup FailingUrls \cup UnsupportedUrls, s \in ScaleInputs,
     k \in ParticleCountInputs}
  \cup {[url |-> u, scale |-> 0, particleCount |-> k] : u \in LargeUrls, k \in LargeCountInputs}
\* the options generateOnSurface() is called with
SurfaceInputs ==
  {[url |-> u, scale |-> s, particleCount |-> k, count |-> n] :
     u \in SmallUrls \cup FailingUrls, s \in ScaleInputs, k \in {0, 2}, n \in {1, 2}}

\* values of Math.random(), in tenths
RandomTenths == {0, 5, 9}
\* a random source: the values successive calls return, repeated periodically
RandomStreams == {<<a, b>> : a \in RandomTenths, b \in RandomTenths}
Random(stream, call) == (stream[(call % Len(stream)) + 1] * Unit) \div 10

\* the points a ray can hit on a model's surface
HitPoints == {<<Unit, 0, 0>>, <<0, Unit \div 2, Unit>>}

\* vertex.fromBufferAttribute(position, i); applyMatrix4(matrixWorld);
\* multiplyScalar(scale)
WorldVertex(node, i, scale) ==
  <<FMul(10 * i, scale), FMul((i % 3) * Unit, scale), FMul(node.tz, scale)>>

\* a node the two passes of extractVertices look at
HasVertices(node) == node.mesh /\ node.position

RECURSIVE CountVertices(_, _)
\* first pass of extractVertices: the vertices of the nodes from position k on
CountVertices(model, k) ==
  IF k > Len(model) THEN 0
  ELSE (IF HasVertices(model[k]) THEN model[k].count ELSE 0) + CountVertices(model, k + 1)

\* Math.max(1, Math.ceil(totalVertexCount / maxVertices))
SamplingStep(total) == Max(1, CeilDiv(total, maxVertices))

\* how many vertices the loop of the second pass can still append before
\* `vertices.length / 3 >= maxVertices` breaks it
RoomLeft_offByOne(have) == Max(0, maxVertices + 1 - have)
RoomLeft(have) == Max(0, maxVertices - have)

\* the numbers the second pass appends for one node: every step-th vertex,
\* until the ceiling breaks the loop
NodeSamples(node, step, scale, have) ==
  IF ~HasVertices(node) THEN <<>>
  ELSE LET n == Min(CeilDiv(node.count, step), RoomLeft(have))
       IN [k \in 1..(3 * n) |-> WorldVertex(node, ((k - 1) \div 3) * step, scale)[((k - 1) % 3) + 1]]

\* (Math.random() - 0.5) * 0.01
Jitter_uncentred(stream, call) == FMul(Random(stream, call), Unit \div 100)
Jitter(stream, call) == FMul(Random(stream, call) - (Unit \div 2), Unit \div 100)

\* the source index of output point i in the sampling branch, computed
\* exactly (the program rounds step = originalCount / finalTargetCount to a
\* double before it multiplies)
DownIndex_ceil(i, originalCount, finalTargetCount) == CeilDiv(i * originalCount, finalTargetCount)
DownIndex(i, originalCount, finalTargetCount) == (i * originalCount) \div finalTargetCount

\* the source index of output point i in the duplicating branch; i % 0 is NaN
UpIndex(i, originalCount) == IF originalCount = 0 THEN NaN ELSE i % originalCount

\* Math.min(targetCount, maxParticles), floored
FinalTargetCount_uncapped(targetCount) == targetCount
FinalTargetCount(targetCount) == Min(targetCount, maxParticles)

\* resampleVertices: the buffer it returns (out), whether it threw (ok), whether
\* it warned about a reduced count (warned) and the branch it took
ResampleVertices(originalVertices, targetCount, stream) ==
  LET finalTargetCount == FinalTargetCount(targetCount)
      originalCount == Len(originalVertices) \div 3
      down == finalTargetCount <= originalCount
      Source(i) == IF down THEN DownIndex(i, originalCount, finalTargetCount)
                   ELSE UpIndex(i, originalCount)
      Offset(i) == IF down THEN 0 ELSE Jitter(stream, i)
      InBounds(i) == /\ ~IsNaN(Source(i))
                     /\ Source(i) * 3 + 2 < Len(originalVertices)
                     /\ i * 3 + 2 < finalTargetCount * 3
  IN [ok |-> finalTargetCount * 3 <= maxTargetElements /\ finalTargetCount >= 0,
      out |-> [k \in 1..(3 * Max(0, finalTargetCount)) |->
                 LET i == (k - 1) \div 3
                 IN IF InBounds(i)
                    THEN FAdd(originalVertices[Source(i) * 3 + ((k - 1) % 3) + 1], Offset(i))
                    ELSE 0],
      warned |-> finalTargetCount < targetCount,
      branch |-> IF down THEN "sample" ELSE "duplicate",
      final |-> finalTargetCount]

\* options.particleCount ? Math.min(options.particleCount, maxVertices) : extracted
TargetParticleCount(particleCount, extractedParticleCount) ==
  IF particleCount # 0 THEN Min(particleCount, maxVertices) ELSE extractedParticleCount


NoCall == [method |-> "none", url |-> <<>>, scale |-> 0, particleCount |-> 0, count |-> 0]
NoResample == [ran |-> FALSE, branch |-> "none", target |-> 0, final |-> 0, warned |-> FALSE]

MGInit ==
  /\ modelCache = {}
  /\ mgPc = "idle"
  /\ mgCall = NoCall
  /\ scene = <<>>
  /\ totalVertexCount = 0
  /\ samplingStep = 0
  /\ nodeIdx = 0
  /\ vertices = <<>>
  /\ resample = NoResample
  /\ returned = <<>>
  /\ result = <<>>
  /\ mgError = "none"
  /\ warnings = <<>>
  /\ placed = 0
  /\ attempts = 0
  /\ surface = <<>>
  /\ calls = 0

\* the state of a call that has just started
Fresh(call) ==
  /\ mgCall' = call
  /\ calls' = calls + 1
  /\ resample' = NoResample
  /\ returned' = <<>>
  /\ result' = <<>>
  /\ warnings' = <<>>
  /\ vertices' = <<>>
  /\ placed' = 0
  /\ attempts' = 0
  /\ surface' = <<>>

\* extractVertices up to the start of its second pass
BeginExtraction(s) ==
  /\ scene' = s
  /\ totalVertexCount' = CountVertices(s, 1)
  /\ samplingStep' = SamplingStep(CountVertices(s, 1))
  /\ nodeIdx' = 1
  /\ mgPc' = "extracting"

\* the locals of extractVertices before it runs
NotExtracting ==
  /\ scene' = <<>>
  /\ totalVertexCount' = 0
  /\ samplingStep' = 0
  /\ nodeIdx' = 0

Fail(message) ==
  /\ mgPc' = "failed"
  /\ mgError' = message

\* options.scale || 1
ScaleOf(call) == OrDefault(call.scale, Unit)

\* generate() up to its first suspension
StartGenerate(url, scale, particleCount) ==
  /\ mgPc \in {"idle", "done", "failed"}
  /\ Fresh([method |-> "generate", url |-> url, scale |-> scale,
            particleCount |-> particleCount, count |-> 0])
  /\ UNCHANGED modelCache
  /\ IF ~isValidModelUrl(url)
     THEN /\ Fail("Invalid model URL or unsupported format")
          /\ NotExtracting
     ELSE IF url \in modelCache
     THEN /\ BeginExtraction(SceneAt(url))
          /\ mgError' = "none"
     ELSE /\ mgPc' = "loading"
          /\ mgError' = "none"
          /\ NotExtracting
  /\ UNCHANGED <<psVars, rsVars, sgVars, pwVars, vgVars>>

\* a generate() call of a page that makes at most MaxCalls calls
Generate(url, scale, particleCount) ==
  /\ calls < MaxCalls
  /\ StartGenerate(url, scale, particleCount)

\* generateOnSurface() up to the await of loadModel
StartGenerateOnSurface(url, scale, particleCount, count) ==
  /\ mgPc \in {"idle", "done", "failed"}
  /\ Fresh([method |-> "generateOnSurface", url |-> url, scale |-> scale,
            particleCount |-> particleCount, count |-> count])
  /\ mgPc' = "loading"
  /\ mgError' = "none"
  /\ NotExtracting
  /\ UNCHANGED modelCache
  /\ UNCHANGED <<psVars, rsVars, sgVars, pwVars, vgVars>>

\* a generateOnSurface() call of a page that makes at most MaxCalls calls
GenerateOnSurface(url, scale, particleCount, count) ==
  /\ calls < MaxCalls
  /\ StartGenerateOnSurface(url, scale, particleCount, count)

\* options.count || 1000
SurfaceCount(call) == OrDefault(call.count, 1000)

\* the meshes generateOnSurface collects
HasMeshes(s) == \E k \in 1..Len(s) : s[k].mesh

\* a ray can only hit a mesh that has a triangle
RayCanHit(s) == \E k \in 1..Len(s) : HasVertices(s[k]) /\ s[k].count >= 3

\* the load settles with a scene: the loader's callback caches it, generate()
\* caches it again below the size limit, and the caller goes on
LoadResolve ==
  /\ mgPc = "loading"
  /\ mgCall.url \notin FailingUrls
  /\ LET afterCallback == modelCache \cup {mgCall.url}
     IN modelCache' = IF mgCall.method = "generate" /\ Cardinality(afterCallback) < cacheLimit
                      THEN afterCallback \cup {mgCall.url}
                      ELSE afterCallback
  /\ UNCHANGED <<mgCall, calls, resample, returned, result, warnings, vertices, placed,
                 attempts>>
  /\ IF mgCall.method = "generate"
     THEN /\ BeginExtraction(SceneAt(mgCall.url))
          /\ UNCHANGED <<mgError, surface>>
     ELSE IF ~HasMeshes(SceneAt(mgCall.url))
     THEN /\ Fail("No meshes found in the model")
          /\ scene' = SceneAt(mgCall.url)
          /\ UNCHANGED <<totalVertexCount, samplingStep, nodeIdx, surface>>
     ELSE /\ mgPc' = "raycasting"
          /\ scene' = SceneAt(mgCall.url)
          /\ surface' = Zeros(SurfaceCount(mgCall) * 3)
          /\ UNCHANGED <<totalVertexCount, samplingStep, nodeIdx, mgError>>
  /\ UNCHANGED <<psVars, rsVars, sgVars, pwVars, vgVars>>

\* the load fails: the promise rejects and the call throws
LoadReject ==
  /\ mgPc = "loading"
  /\ mgCall.url \in FailingUrls
  /\ Fail("load error")
  /\ UNCHANGED <<modelCache, mgCall, calls, scene, totalVertexCount, samplingStep,
                 nodeIdx, vertices, resample, returned, result, warnings, placed,
                 attempts, surface>>
  /\ UNCHANGED <<psVars, rsVars, sgVars, pwVars, vgVars>>


\* second pass of extractVertices: one node of the traversal
ExtractNode ==
  /\ mgPc = "extracting"
  /\ nodeIdx <= Len(scene)
  /\ vertices' = vertices \o NodeSamples(scene[nodeIdx], samplingStep, ScaleOf(mgCall),
                                          Len(vertices) \div 3)
  /\ nodeIdx' = nodeIdx + 1
  /\ UNCHANGED <<modelCache, mgPc, mgCall, scene, totalVertexCount, samplingStep,
                 resample, returned, result, mgError, warnings, placed, attempts,
                 surface, calls>>
  /\ UNCHANGED <<psVars, rsVars, sgVars, pwVars, vgVars>>

\* Math.floor(Math.random() * vertexCount)
FillIndex(stream, call, vertexCount) == (Random(stream, call) * vertexCount) \div Unit

\* the fallback fill of generateOnSurface: slots from `from` on get a random
\* vertex of `source`; reading past its end yields undefined, stored as NaN
FallbackFill(buffer, from, source, stream) ==
  [k \in 1..Len(buffer) |->
     LET i == (k - 1) \div 3
     IN IF i >= from
        THEN ReadAt(source, FillIndex(stream, i - from, Len(source) \div 3) * 3 + ((k - 1) % 3) + 1)
        ELSE buffer[k]]

\* whether the rest of extractVertices resamples by duplication, the one place
\* where Math.random() decides the buffer
WillDuplicate ==
  LET extracted == Len(vertices) \div 3
      target == TargetParticleCount(mgCall.particleCount, extracted)
  IN target # extracted /\ FinalTargetCount(target) > extracted

\* the rest of extractVertices after the traversal, and what its caller does
\* with the buffer
ExtractFinish(stream, fillStream) ==
  /\ mgPc = "extracting"
  /\ nodeIdx > Len(scene)
  /\ LET extractedParticleCount == Len(vertices) \div 3
         validLength == extractedParticleCount * 3
         kept == SubSeq(vertices, 1, validLength)
         adjusted == IF Len(vertices) # validLength THEN <<"Adjusting array length">> ELSE <<>>
         targetParticleCount == TargetParticleCount(mgCall.particleCount, extractedParticleCount)
         resamples == targetParticleCount # extractedParticleCount
         rs == ResampleVertices(kept, targetParticleCount, stream)
         buffer == IF resamples THEN rs.out ELSE kept
         reduced == IF resamples /\ rs.ok /\ rs.warned THEN <<"Reduced particle count">> ELSE <<>>
     IN /\ vertices' = kept
        /\ IF validLength > maxElements
           THEN /\ Fail("Too many vertices")
                /\ warnings' = warnings \o adjusted
                /\ UNCHANGED <<resample, returned, result, surface>>
           ELSE IF resamples /\ ~rs.ok
           THEN /\ Fail(IF rs.final * 3 > maxTargetElements
                        THEN "Target array size too large" ELSE "Array creation failed")
                /\ warnings' = warnings \o adjusted
                /\ resample' = [ran |-> TRUE, branch |-> "none", target |-> targetParticleCount,
                                final |-> rs.final, warned |-> FALSE]
                /\ UNCHANGED <<returned, result, surface>>
           ELSE /\ warnings' = warnings \o adjusted \o reduced
                /\ resample' = IF resamples
                               THEN [ran |-> TRUE, branch |-> rs.branch,
                                     target |-> targetParticleCount, final |-> rs.final,
                                     warned |-> rs.warned]
                               ELSE NoResample
                /\ returned' = buffer
                /\ IF mgCall.method = "generate"
                   THEN IF Len(buffer) = 0
                        THEN /\ Fail("No vertices found in the model")
                             /\ UNCHANGED <<result, surface>>
                        ELSE /\ mgPc' = "done"
                             /\ result' = buffer
                             /\ UNCHANGED <<mgError, surface>>
                   ELSE /\ mgPc' = "done"
                        /\ surface' = FallbackFill(surface, placed, buffer, fillStream)
                        /\ result' = surface'
                        /\ UNCHANGED mgError
  /\ UNCHANGED <<modelCache, mgCall, scene, totalVertexCount, samplingStep, nodeIdx,
                 placed, attempts, calls>>
  /\ UNCHANGED <<psVars, rsVars, sgVars, pwVars, vgVars>>

\* the condition of the raycast loop
LoopContinues(p, a, count) == p < count /\ a < count * 10

NoHit == <<>>

\* one iteration of the raycast loop of generateOnSurface, and what follows
\* the loop when this was its last iteration
Raycast(hit) ==
  /\ mgPc = "raycasting"
  /\ hit # NoHit => RayCanHit(scene)
  /\ LET scale == ScaleOf(mgCall)
         count == SurfaceCount(mgCall)
         placed1 == IF hit = NoHit THEN placed ELSE placed + 1
         surface1 == IF hit = NoHit THEN surface
                       ELSE [surface EXCEPT ![placed * 3 + 1] = FMul(hit[1], scale),
                                              ![placed * 3 + 2] = FMul(hit[2], scale),
                                              ![placed * 3 + 3] = FMul(hit[3], scale)]
     IN /\ placed' = placed1
        /\ attempts' = attempts + 1
        /\ surface' = surface1
        /\ IF LoopContinues(placed1, attempts + 1, count)
           THEN UNCHANGED <<mgPc, result, totalVertexCount, samplingStep, nodeIdx>>
           ELSE IF placed1 < count
           THEN /\ totalVertexCount' = CountVertices(scene, 1)
                /\ samplingStep' = SamplingStep(CountVertices(scene, 1))
                /\ nodeIdx' = 1
                /\ mgPc' = "extracting"
                /\ UNCHANGED result
           ELSE /\ mgPc' = "done"
                /\ result' = surface1
                /\ UNCHANGED <<totalVertexCount, samplingStep, nodeIdx>>
  /\ UNCHANGED <<modelCache, mgCall, scene, vertices, resample, returned, mgError,
                 warnings, calls>>
  /\ UNCHANGED <<psVars, rsVars, sgVars, pwVars, vgVars>>

MGNext ==
  \/ \E o \in GenerateInputs : Generate(o.url, o.scale, o.particleCount)
  \/ \E o \in SurfaceInputs : GenerateOnSurface(o.url, o.scale, o.particleCount, o.count)
  \/ LoadResolve
  \/ LoadReject
  \/ ExtractNode
  \/ \E stream \in (IF WillDuplicate THEN RandomStreams ELSE {<<0>>}),
        fillStream \in (IF mgCall.method = "generateOnSurface" THEN RandomStreams ELSE {<<0>>}) :
       ExtractFinish(stream, fillStream)
  \/ \E hit \in HitPoints \cup {NoHit} : Raycast(hit)

(***************************************************************************)
(* The static model cache over many calls                                  *)
(***************************************************************************)
\* the distinct model files of a page that loads many models
CacheNames == <<"a", "b", "c", "d", "e", "f", "g", "h", "i", "j", "k", "l", "m", "n">>
CacheUrl(k) == <<"tri", CacheNames[k], ".glb">>

\* URLs are interchangeable, so a page is taken to request the files in the
\* order of CacheNames: a call names a file requested before (all of them are
\* in the cache) or the first file not requested yet
CacheUrlChoices == {CacheUrl(k) : k \in 1..Min(Cardinality(modelCache) + 1, Len(CacheNames))}

CacheGenerate(url) ==
  /\ calls < MaxCacheCalls
  /\ StartGenerate(url, 0, 0)

CacheGenerateOnSurface(url) ==
  /\ calls < MaxCacheCalls
  /\ StartGenerateOnSurface(url, 0, 0, 1)

CacheNext ==
  \/ \E url \in CacheUrlChoices : CacheGenerate(url)
  \/ \E url \in CacheUrlChoices : CacheGenerateOnSurface(url)
  \/ LoadResolve
  \/ ExtractNode
  \/ ExtractFinish(<<0>>, <<0>>)
  \/ \E hit \in HitPoints \cup {NoHit} : Raycast(hit)

(***************************************************************************)
(* resampleVertices applied to a buffer, and again to its own result       *)
(***************************************************************************)

\* buffers of n vertices
BufferOf(n) == [k \in 1..(3 * n) |-> WorldVertex(Node(TRUE, TRUE, n, Unit), (k - 1) \div 3, Unit)[((k - 1) % 3) + 1]]
ResampleBuffers == {BufferOf(1), BufferOf(2), BufferOf(3), BufferOf(5), BufferOf(1002)}
ResampleTargets == {1, 2, 3, 4, 1000, 1001}

NotApplied == [ok |-> FALSE, out |-> <<>>, warned |-> FALSE, branch |-> "none", final |-> 0]

RSQuiet ==
  /\ rsInput = <<>>
  /\ rsTarget = 0
  /\ rsOnce = NotApplied
  /\ rsTwice = NotApplied
  /\ rsPc = 0

RSInit ==
  /\ rsInput \in ResampleBuffers
  /\ rsTarget \in ResampleTargets
  /\ rsOnce = NotApplied
  /\ rsTwice = NotApplied
  /\ rsPc = 0

ResampleFirst(stream) ==
  /\ rsPc = 0
  /\ rsOnce' = ResampleVertices(rsInput, rsTarget, stream)
  /\ rsPc' = 1
  /\ UNCHANGED <<rsInput, rsTarget, rsTwice>>
  /\ UNCHANGED <<psVars, mgVars, sgVars, pwVars, vgVars>>

ResampleSecond(stream) ==
  /\ rsPc = 1
  /\ rsOnce.ok
  /\ rsTwice' = ResampleVertices(rsOnce.out, rsTarget, stream)
  /\ rsPc' = 2
  /\ UNCHANGED <<rsInput, rsTarget, rsOnce>>
  /\ UNCHANGED <<psVars, mgVars, sgVars, pwVars, vgVars>>

RSNext ==
  \/ \E stream \in RandomStreams : ResampleFirst(stream)
  \/ \E stream \in RandomStreams : ResampleSecond(stream)

(***************************************************************************)
(* ParticleSystem built with connections (initConnections)                 *)
(***************************************************************************)
\* reference positions of systems whose connections are looked at
ConnectPositionInputs ==
  { <<0, 0, 0, Unit, 0, 0, 2 * Unit, 0, 0, 3 * Unit, 0, 0>>,
    <<0, 0, 0, 0, 0, 0, 5 * Unit, 5 * Unit, 5 * Unit>>,
    <<0, 0, 0, Unit \div 2, 0, 0, 0, Unit \div 2, 0, 3 * Unit, 0, 0>>,
    <<0, 0, 0, Unit, Unit, Unit, 0 - Unit, 0 - Unit, 0 - Unit>>,
    <<0, 0, 0, 0, 0, Unit>>,
    <<0, 0>> }
ConnectCountInputs == {1, 2, 3, 4}
\* options.connectionDistance
ConnectDistanceInputs == {0, Unit \div 2, Unit, 2 * Unit, Infinity}
ConnectOptionInputs ==
  {[connected |-> TRUE, connectionDistance |-> d] : d \in ConnectDistanceInputs}
  \cup {[connected |-> TRUE], [connected |-> FALSE, connectionDistance |-> Unit]}

ConnectNext ==
  \E p \in ConnectPositionInputs, n \in ConnectCountInputs, o \in ConnectOptionInputs :
    Construct(p, Zeros(3 * n), [k \in 1..n |-> Unit], n, o)

\* a connected system that lives on: ticks and new reference positions
ReconnectOptionInputs ==
  {[connected |-> TRUE, connectionDistance |-> d, animated |-> a] :
     d \in {Unit, 2 * Unit}, a \in BOOLEAN}

ReconnectNext ==
  \/ \E p \in ConnectPositionInputs, n \in ConnectCountInputs, o \in ReconnectOptionInputs :
       Construct(p, Zeros(3 * n), [k \in 1..n |-> Unit], n, o)
  \/ \E p \in ConnectPositionInputs : UpdatePositions(p)
  \/ \E dt \in DeltaTimes, m \in PointerInputs : Update(dt, m)

(***************************************************************************)
(* SphereGenerator (generators/SphereGenerator.ts)                         *)
(***************************************************************************)
\* options.count: 0 stands for an absent count
SphereCountInputs == 0..MaxSphereCount
\* options.params.radius: 0 stands for an absent radius
SphereRadiusInputs == {0, Unit \div 2, Unit, 2 * Unit, 3 * Unit, 5 * Unit}

\* Math.PI * (3 - Math.sqrt(5))
goldenAngle == FMul(Pi, 3 * Unit - FSqrt(5 * Unit * Unit))

\* y = 1 - (i / (count - 1)) * 2; 0 / 0 is NaN
HeightAt(i, count) == FSub(Unit, FMul(FDiv(i * Unit, (count - 1) * Unit), 2 * Unit))

\* Math.sqrt(1 - y * y); the root of a negative number is NaN
RadiusAtY_flat(y) == IF IsNaN(y) THEN NaN ELSE Unit
RadiusAtY(y) ==
  IF IsNaN(y) \/ Unit * Unit - y * y < 0 THEN NaN ELSE FSqrt(Unit * Unit - y * y)

\* the point the loop of generate() stores for index i
SpherePoint(i, count, radius) ==
  LET y == HeightAt(i, count)
      radiusAtY == RadiusAtY(y)
      theta == goldenAngle * i
  IN <<FMul(FMul(Cos(theta), radiusAtY), radius),
       FMul(y, radius),
       FMul(FMul(Sin(theta), radiusAtY), radius)>>

\* the length of the buffer generate() allocates
SphereLength_flat(count) == count
SphereLength(count) == count * 3

\* SphereGenerator.generate
SpherePositions(givenCount, givenRadius) ==
  LET count == OrDefault(givenCount, 1000)
      radius == OrDefault(givenRadius, Unit)
  IN [k \in 1..SphereLength(count) |->
        SpherePoint((k - 1) \div 3, count, radius)[((k - 1) % 3) + 1]]

NoSphereCall == [method |-> "none", count |-> 0, radius |-> 0]

SGInit ==
  /\ sgPc = "idle"
  /\ sgCall = NoSphereCall
  /\ sgResult = <<>>

SphereGenerate(count, radius) ==
  /\ sgPc = "idle"
  /\ sgCall' = [method |-> "generate", count |-> count, radius |-> radius]
  /\ sgResult' = SpherePositions(count, radius)
  /\ sgPc' = "done"
  /\ UNCHANGED <<psVars, mgVars, rsVars, pwVars, vgVars>>

SGNext ==
  \E count \in SphereCountInputs, radius \in SphereRadiusInputs : SphereGenerate(count, radius)

(***************************************************************************)
(* SphereGenerator.generateVolume                                          *)
(***************************************************************************)
VolumeCountInputs == {1, 2, 3}
\* options.params.radius: 0 stands for an absent radius
VolumeRadiusInputs == {0, Unit, 2 * Unit}
\* random sources of period 4: each draw of a point takes three values
VolumeStreams ==
  {<<a, b, c, d>> : a \in RandomTenths, b \in RandomTenths, c \in RandomTenths,
                    d \in RandomTenths}

\* Math.random() * 2 - 1
Coordinate(stream, call) == 2 * Random(stream, call) - Unit

\* the condition of the do/while loop: the point drawn lies outside the unit
\* sphere and is drawn again
OutsideUnitSphere(x, y, z) == x * x + y * y + z * z > Unit * Unit

NoVolumeCall == [count |-> 0, radius |-> 0]

VGInit ==
  /\ vgPc = "idle"
  /\ vgCall = NoVolumeCall
  /\ vgStream = <<0>>
  /\ vgRandomAt = 0
  /\ vgIndex = 0
  /\ vgPositions = <<>>

\* generateVolume() up to its loops
VolumeStart(count, radius, stream) ==
  /\ vgPc = "idle"
  /\ vgCall' = [count |-> OrDefault(count, 1000), radius |-> OrDefault(radius, Unit)]
  /\ vgStream' = stream
  /\ vgRandomAt' = 0
  /\ vgIndex' = 0
  /\ vgPositions' = Zeros(OrDefault(count, 1000) * 3)
  /\ vgPc' = "sampling"
  /\ UNCHANGED <<psVars, mgVars, rsVars, sgVars, pwVars>>

\* one iteration of the do/while loop of generateVolume: three values are
\* drawn; a point inside the unit sphere is scaled and stored and the outer
\* loop moves on (the call returns after the last point), any other point is
\* drawn again
VolumeDraw ==
  /\ vgPc = "sampling"
  /\ LET x == Coordinate(vgStream, vgRandomAt)
         y == Coordinate(vgStream, vgRandomAt + 1)
         z == Coordinate(vgStream, vgRandomAt + 2)
     IN /\ vgRandomAt' = (vgRandomAt + 3) % Len(vgStream)
        /\ IF OutsideUnitSphere(x, y, z)
           THEN UNCHANGED <<vgIndex, vgPositions, vgPc>>
           ELSE /\ vgPositions' = [vgPositions EXCEPT ![vgIndex * 3 + 1] = FMul(x, vgCall.radius),
                                                      ![vgIndex * 3 + 2] = FMul(y, vgCall.radius),
                                                      ![vgIndex * 3 + 3] = FMul(z, vgCall.radius)]
                /\ vgIndex' = vgIndex + 1
                /\ vgPc' = IF vgIndex + 1 < vgCall.count THEN "sampling" ELSE "done"
  /\ UNCHANGED <<vgCall, vgStream>>
  /\ UNCHANGED <<psVars, mgVars, rsVars, sgVars, pwVars>>

VGNext ==
  \/ \E count \in VolumeCountInputs, radius \in VolumeRadiusInputs, stream \in VolumeStreams :
       VolumeStart(count, radius, stream)
  \/ VolumeDraw

(***************************************************************************)
(* ParticleWeaver (ParticleWeaver.ts)                                      *)
(***************************************************************************)
\* An option group the caller left out is Absent; one the caller gave is
\* Given(object), the object holding the keys the caller wrote.
Absent == <<>>
Given(object) == <<object>>

\* an object without keys
Empty == [k \in {} |-> 0]

\* { ...under, ...over }: the keys of over win
Spread(under, over) ==
  [k \in (DOMAIN under) \cup (DOMAIN over) |-> IF k \in DOMAIN over THEN over[k] ELSE under[k]]

\* the value of a key in arithmetic; a missing key is undefined, which is NaN
NumberAt(object, key) == IF key \in DOMAIN object THEN object[key] ELSE NaN

cameraDefaults == [fov |-> 75 * Unit, near |-> Unit \div 10, far |-> 1000 * Unit, position |-> <<0, 0, 5 * Unit>>]
rendererDefaults == [antialias |-> TRUE, backgroundColor |-> "black", alpha |-> FALSE]
particleDefaults ==
  [size |-> Unit, color |-> "white", opacity |-> Unit, sizeVariation |-> 0, colorVariation |-> 0]

\* one group of mergeDefaultOptions: { ...defaults, ...options.group } is built
\* first, and the trailing ...options then puts the caller's own object under
\* the same key whenever the caller gave one
MergedGroup(defaults, group) ==
  LET merged == Spread(defaults, IF group = Absent THEN Empty ELSE group[1])
  IN IF group = Absent THEN merged ELSE group[1]

\* mergeDefaultOptions
mergeDefaultOptions(options) ==
  [target |-> options.target,
   camera |-> MergedGroup(cameraDefaults, options.camera),
   renderer |-> MergedGroup(rendererDefaults, options.renderer),
   particle |-> MergedGroup(particleDefaults, options.particle),
   shape |-> options.shape,
   model |-> options.model,
   webgl |-> options.webgl]

\* options.target is "missing" (undefined or null), "empty" (the empty string:
\* given, falsy, no element), "text" (a non-empty string) or "element" (an
\* HTMLElement).  !options.target holds for the falsy ones
Falsy(target) == target \in {"missing", "empty"}

\* validateOptions and the environment check: the error it throws, or "none"
validateOptions_lenient(options) == "none"
validateOptions(options) ==
  IF Falsy(options.target) THEN "ParticleWeaver: target element is required"
  ELSE IF options.target # "element" THEN "ParticleWeaver: target must be a valid HTMLElement"
  ELSE IF ~options.webgl THEN "ParticleWeaver: WebGL is not supported in this browser"
  ELSE "none"

\* Math.max(0.01, x); NaN when x is NaN
ClampSize(x) == IF IsNaN(x) THEN NaN ELSE Max(Unit \div 100, x)

\* how many Math.random() calls processBatch makes per particle
RandomCallsPerParticle(particle) ==
  IF FLess(0, NumberAt(particle, "colorVariation")) THEN 4 ELSE 1

\* initializeParticleProperties: the sizes it writes for `count` particles
InitialSizes(particle, count, stream) ==
  [i \in 1..count |->
     LET call == (i - 1) * RandomCallsPerParticle(particle) + RandomCallsPerParticle(particle) - 1
     IN ClampSize(FAdd(NumberAt(particle, "size"),
                       FMul(Random(stream, call) - (Unit \div 2),
                            NumberAt(particle, "sizeVariation"))))]

\* the options a ParticleWeaver is constructed with
CameraInputs ==
  {Absent, Given(Empty), Given([fov |-> 60 * Unit]), Given([position |-> <<0, 0, 3 * Unit>>]),
   Given([fov |-> 60 * Unit, position |-> <<0, 0, 3 * Unit>>])}
RendererInputs == {Absent, Given([alpha |-> TRUE])}
ParticleInputs ==
  {Absent, Given(Empty), Given([color |-> "red"]), Given([size |-> 2 * Unit]),
   Given([sizeVariation |-> Unit \div 5]),
   Given([size |-> Unit \div 2, sizeVariation |-> 2 * Unit]),
   Given([size |-> 0 - Unit, sizeVariation |-> 0]),
   Given([size |-> Unit, sizeVariation |-> Unit \div 5, colorVariation |-> Unit \div 10])}
\* options.shape: Absent, or the count of a sphere
ShapeInputs == {Absent, Given([count |-> 1]), Given([count |-> 2])}
WeaverInputs ==
  {[target |-> "element", webgl |-> TRUE, camera |-> c, renderer |-> r, particle |-> q, shape |-> h,
    model |-> Absent] :
     c \in CameraInputs, r \in RendererInputs, q \in ParticleInputs, h \in ShapeInputs}
  \cup {[target |-> t, webgl |-> w, camera |-> Absent, renderer |-> Absent, particle |-> Absent,
         shape |-> Given([count |-> 1]), model |-> Absent] :
           t \in {"missing", "empty", "text", "element"}, w \in BOOLEAN}

NoOptions == [target |-> "missing", webgl |-> FALSE, camera |-> Empty, renderer |-> Empty,
              particle |-> Empty, shape |-> Absent, model |-> Absent]

PWInit ==
  /\ pwState = "new"
  /\ pwGiven = NoOptions
  /\ pwOptions = NoOptions
  /\ pwCount = 0
  /\ pwSizes = <<>>
  /\ pwError = "none"
  /\ pwRenderer = "none"
  /\ pwCanvasAttached = FALSE
  /\ pwListeners = {}
  /\ pwBinds = 0
  /\ animationId = 0
  /\ pwFrameQueue = {}
  /\ pwFrames = 0
  /\ isDisposed = FALSE
  /\ particleSystem = "none"
  /\ pwSceneObjects = 0
  /\ pwLoad = "none"
  /\ pwLogged = <<>>
  /\ pwUpdates = 0
  /\ pwRenders = 0
  /\ pwResizes = 0
  /\ isMouseTracking = FALSE

\* a registered event listener: the target it is on, the event type and the
\* function object (a function's name and which object of that name it is)
Listener(on, type, name, object) == [on |-> on, type |-> type, fn |-> <<name, object>>]

\* this.handleResize.bind(this): every evaluation makes a new function object
BoundHandleResize(n) == Listener("window", "resize", "handleResize.bind(this)", n)

\* the listeners setupEventListeners registers
SetupListeners ==
  {Listener("canvas", "mousemove", "onMouseMove", 1),
   Listener("canvas", "mouseleave", "onMouseLeave", 1),
   Listener("window", "resize", "onResize", 1)}

\* removeEventListener: removes the listener with this very function object
RemoveListener(registered, listener) == registered \ {listener}

\* cancelAnimationFrame(id)
CancelFrame_kept(queue, id) == queue
CancelFrame(queue, id) == queue \ {id}

\* initCamera throws: target.clientWidth of a missing target, or
\* position.copy(undefined)
CameraThrows(merged) == merged.target = "missing" \/ "position" \notin DOMAIN merged.camera

\* what the constructor leaves undone when it throws before initRenderer
NothingCreated ==
  UNCHANGED <<pwRenderer, pwCanvasAttached, pwListeners, pwBinds, animationId, pwFrameQueue,
              pwFrames, particleSystem, pwSceneObjects, pwLoad, pwUpdates, pwRenders>>

\* new ParticleWeaver(options)
WeaverConstruct(options, stream) ==
  /\ pwState = "new"
  /\ pwGiven' = options
  /\ IF validateOptions(options) # "none"
     THEN /\ pwState' = "failed"
          /\ pwError' = validateOptions(options)
          /\ NothingCreated
          /\ UNCHANGED <<pwOptions, pwCount, pwSizes>>
     ELSE LET merged == mergeDefaultOptions(options)
              count == IF merged.shape = Absent THEN 0
                       ELSE OrDefault(NumberAt(merged.shape[1], "count"), 1000)
          IN /\ pwOptions' = merged
             /\ IF CameraThrows(merged) \/ ~merged.webgl
                THEN \* initCamera or new THREE.WebGLRenderer throws
                     /\ pwState' = "failed"
                     /\ pwError' = "ParticleWeaver initialization failed"
                     /\ NothingCreated
                     /\ UNCHANGED <<pwCount, pwSizes>>
                ELSE IF merged.target # "element"
                THEN \* initRenderer: target.appendChild throws
                     /\ pwState' = "failed"
                     /\ pwError' = "ParticleWeaver initialization failed"
                     /\ pwRenderer' = "created"
                     /\ UNCHANGED <<pwCanvasAttached, pwListeners, pwBinds, animationId,
                                    pwFrameQueue, pwFrames, particleSystem, pwSceneObjects,
                                    pwLoad, pwUpdates, pwRenders>>
                     /\ UNCHANGED <<pwCount, pwSizes>>
                ELSE /\ pwState' = "ready"
                     /\ pwError' = "none"
                     \* initRenderer
                     /\ pwRenderer' = "created"
                     /\ pwCanvasAttached' = TRUE
                     /\ pwBinds' = pwBinds + 1
                     \* setupEventListeners
                     /\ pwListeners' = {BoundHandleResize(pwBinds + 1)} \cup SetupListeners
                     \* animate(): the first frame is requested, nothing to update yet
                     /\ pwFrames' = pwFrames + 1
                     /\ animationId' = pwFrames + 1
                     /\ pwFrameQueue' = pwFrameQueue \cup {pwFrames + 1}
                     /\ pwRenders' = pwRenders + 1
                     /\ UNCHANGED pwUpdates
                     /\ IF merged.shape # Absent
                        THEN \* createParticlesFromShape
                             /\ pwCount' = count
                             /\ pwSizes' = InitialSizes(merged.particle, count, stream)
                             /\ particleSystem' = "live"
                             /\ pwSceneObjects' = pwSceneObjects + 1
                             /\ UNCHANGED pwLoad
                        ELSE IF merged.model # Absent
                        THEN \* createParticlesFromModel up to its await
                             /\ pwLoad' = "pending"
                             /\ UNCHANGED <<pwCount, pwSizes, particleSystem, pwSceneObjects>>
                        ELSE UNCHANGED <<pwCount, pwSizes, particleSystem, pwSceneObjects, pwLoad>>
  /\ UNCHANGED <<isDisposed, pwLogged, pwResizes, isMouseTracking>>
  /\ UNCHANGED <<psVars, mgVars, rsVars, sgVars, vgVars>>

\* what generate() of ModelGenerator settles with for a small model and no
\* particleCount: an error, or the positions of all its vertices
ModelOutcome(url) ==
  IF ~isValidModelUrl(url)
  THEN [ok |-> FALSE, error |-> "Invalid model URL or unsupported format", count |-> 0]
  ELSE IF url \in FailingUrls THEN [ok |-> FALSE, error |-> "load error", count |-> 0]
  ELSE IF CountVertices(SceneAt(url), 1) = 0
  THEN [ok |-> FALSE, error |-> "No vertices found in the model", count |-> 0]
  ELSE [ok |-> TRUE, error |-> "none", count |-> CountVertices(SceneAt(url), 1)]

\* the rest of createParticlesFromModel, after its await: generate() has
\* settled, with positions or with an error
ModelSettled(stream) ==
  /\ pwLoad = "pending"
  /\ LET outcome == ModelOutcome(pwOptions.model[1].url)
     IN IF outcome.ok
        THEN \* createParticleSystem(positions)
             /\ pwLoad' = "loaded"
             /\ pwCount' = outcome.count
             /\ pwSizes' = InitialSizes(pwOptions.particle, outcome.count, stream)
             /\ particleSystem' = "live"
             /\ pwSceneObjects' = pwSceneObjects + 1
             /\ UNCHANGED pwLogged
        ELSE \* catch (error): console.error
             /\ pwLoad' = "failed"
             /\ pwLogged' = Append(pwLogged, <<"Failed to load model:", outcome.error>>)
             /\ UNCHANGED <<pwCount, pwSizes, particleSystem, pwSceneObjects>>
  /\ UNCHANGED <<pwState, pwGiven, pwOptions, pwError, pwRenderer, pwCanvasAttached,
                 pwListeners, pwBinds, animationId, pwFrameQueue, pwFrames, isDisposed,
                 pwUpdates, pwRenders, pwResizes, isMouseTracking>>
  /\ UNCHANGED <<psVars, mgVars, rsVars, sgVars, vgVars>>

\* the browser runs the scheduled animation frame callback `id`: animate()
Frame(id) ==
  /\ id \in pwFrameQueue
  /\ pwFrames < MaxFrames
  /\ IF isDisposed
     THEN /\ pwFrameQueue' = pwFrameQueue \ {id}
          /\ UNCHANGED <<animationId, pwFrames, pwUpdates, pwRenders>>
     ELSE /\ pwFrames' = pwFrames + 1
          /\ animationId' = pwFrames + 1
          /\ pwFrameQueue' = (pwFrameQueue \ {id}) \cup {pwFrames + 1}
          /\ pwUpdates' = IF particleSystem # "none" THEN pwUpdates + 1 ELSE pwUpdates
          /\ pwRenders' = pwRenders + 1
  /\ UNCHANGED <<pwState, pwGiven, pwOptions, pwCount, pwSizes, pwError, pwRenderer,
                 pwCanvasAttached, pwListeners, pwBinds, isDisposed, particleSystem,
                 pwSceneObjects, pwLoad, pwLogged, pwResizes, isMouseTracking>>
  /\ UNCHANGED <<psVars, mgVars, rsVars, sgVars, vgVars>>

\* dispose()
Dispose ==
  /\ pwState = "ready"
  /\ pwState' = "disposed"
  /\ IF animationId # 0
     THEN /\ pwFrameQueue' = CancelFrame(pwFrameQueue, animationId)
          /\ animationId' = 0
     ELSE UNCHANGED <<pwFrameQueue, animationId>>
  /\ particleSystem' = IF particleSystem # "none" THEN "disposed" ELSE particleSystem
  /\ pwRenderer' = "disposed"
  \* removeEventListener is given a function object that bind makes anew
  /\ pwBinds' = pwBinds + 1
  /\ pwListeners' = RemoveListener(pwListeners, BoundHandleResize(pwBinds + 1))
  /\ pwCanvasAttached' = FALSE
  /\ UNCHANGED <<pwGiven, pwOptions, pwCount, pwSizes, pwError, pwFrames, isDisposed,
                 pwSceneObjects, pwLoad, pwLogged, pwUpdates, pwRenders, pwResizes,
                 isMouseTracking>>
  /\ UNCHANGED <<psVars, mgVars, rsVars, sgVars, vgVars>>

\* the listeners registered for an event
ListenersFor(on, type) == {l \in pwListeners : l.on = on /\ l.type = type}

\* a window 'resize' event: every registered handler runs (handleResize, onResize)
WindowResize ==
  /\ ListenersFor("window", "resize") # {}
  /\ pwResizes < 2 * MaxEvents
  /\ pwResizes' = pwResizes + Cardinality(ListenersFor("window", "resize"))
  /\ UNCHANGED <<pwState, pwGiven, pwOptions, pwCount, pwSizes, pwError, pwRenderer,
                 pwCanvasAttached, pwListeners, pwBinds, animationId, pwFrameQueue, pwFrames,
                 isDisposed, particleSystem, pwSceneObjects, pwLoad, pwLogged, pwUpdates,
                 pwRenders, isMouseTracking>>
  /\ UNCHANGED <<psVars, mgVars, rsVars, sgVars, vgVars>>

\* a pointer event on the canvas, which receives them while it is in the
\* document: onMouseMove (tracking = TRUE) or onMouseLeave (tracking = FALSE)
MouseEvent(type, tracking) ==
  /\ pwCanvasAttached
  /\ ListenersFor("canvas", type) # {}
  /\ isMouseTracking' = tracking
  /\ UNCHANGED <<pwState, pwGiven, pwOptions, pwCount, pwSizes, pwError, pwRenderer,
                 pwCanvasAttached, pwListeners, pwBinds, animationId, pwFrameQueue, pwFrames,
                 isDisposed, particleSystem, pwSceneObjects, pwLoad, pwLogged, pwUpdates,
                 pwRenders, pwResizes>>
  /\ UNCHANGED <<psVars, mgVars, rsVars, sgVars, vgVars>>

\* options.model.url of the weavers whose life is followed
ModelInputs ==
  {Given([url |-> u]) : u \in {<<"tri", ".GLB">>, <<"pair", ".glb">>, <<"empty", ".glb">>,
                               <<"missing", ".glb">>, <<"model", ".obj">>}}

\* a weaver with a sphere, with a model, or without particles
LifeInputs ==
  {[target |-> "element", webgl |-> TRUE, camera |-> Absent, renderer |-> Absent,
    particle |-> Absent, shape |-> h, model |-> g] :
     h \in {Absent, Given([count |-> 2])}, g \in ModelInputs \cup {Absent}}

LifeNext ==
  \/ \E options \in LifeInputs, stream \in RandomStreams : WeaverConstruct(options, stream)
  \/ \E stream \in RandomStreams : ModelSettled(stream)
  \/ \E id \in pwFrameQueue : Frame(id)
  \/ Dispose
  \/ WindowResize
  \/ MouseEvent("mousemove", TRUE)
  \/ MouseEvent("mouseleave", FALSE)

PWNext ==
  \E options \in WeaverInputs, stream \in RandomStreams : WeaverConstruct(options, stream)

(***************************************************************************)
(* Specifications                                                          *)
(***************************************************************************)
\* a ParticleSystem and its callers
Init == PSInit /\ MGInit /\ RSQuiet /\ SGInit /\ PWInit /\ VGInit
Next == PSNext
Spec == Init /\ [][Next]_vars

\* a ModelGenerator and its callers
ModelNext == MGNext
SpecModel == Init /\ [][ModelNext]_vars

\* the model cache of a page that loads many models
SpecCache == Init /\ [][CacheNext]_vars

\* resampleVertices on its own
ResampleInit == PSInit /\ MGInit /\ RSInit /\ SGInit /\ PWInit /\ VGInit
ResampleNext == RSNext
SpecResample == ResampleInit /\ [][ResampleNext]_vars

\* a ParticleSystem constructed with connections
SpecConnect == Init /\ [][ConnectNext]_vars

\* a connected ParticleSystem and its callers
SpecReconnect == Init /\ [][ReconnectNext]_vars

\* a SphereGenerator and its callers
SphereNext == SGNext
SpecSphere == Init /\ [][SphereNext]_vars

\* a ParticleWeaver and its callers
WeaverNext == PWNext
SpecWeaver == Init /\ [][WeaverNext]_vars

\* a ParticleWeaver from its construction on: frames, events, the model load
\* and dispose()
SpecLife == Init /\ [][LifeNext]_vars

\* a SphereGenerator.generateVolume call; the loops are synchronous code, so
\* an iteration that can run does run
VolumeNext == VGNext
SpecVolume == Init /\ [][VolumeNext]_vars /\ WF_vars(VolumeDraw)

(***************************************************************************)
(* Properties                                                              *)
(***************************************************************************)

\* C1: update() never changes the reference positions (data.positions): in
\* every update() tick that writes positions, the reference buffer and the
\* buffer the tick writes to (the position attribute's array) are different
\* arrays, and the reference buffer holds the same numbers after the tick as
\* before it.
C1_ReferenceNeverWritten ==
  [][(psState = "live" /\ ticks' = ticks + 1 /\ ~UpdateSkips(psOptions))
       => (dataPositions # attrPosition /\ heap'[dataPositions] = heap[dataPositions])]_vars

\* C2: with animated = false and interactive = false, an update() tick with
\* any deltaTime and any pointer changes no state of the system (no buffer, no
\* accumulated time), and after it the working positions equal the reference
\* positions element for element.
C2_IdleUpdateChangesNothing ==
  [][(psState = "live" /\ ~psOptions.animated /\ ~psOptions.interactive /\ ticks' = ticks + 1)
       => /\ heap' = heap
          /\ time' = time
          /\ dataPositions' = dataPositions
          /\ attrPosition' = attrPosition
          /\ psOptions' = psOptions
          /\ heap'[attrPosition'] = heap'[dataPositions']]_vars

\* two idle ticks have run, the second one after updatePositions()
C2_Witness ==
  /\ psState = "live"
  /\ ~psOptions.animated /\ ~psOptions.interactive
  /\ ticks = 2
  /\ lastOp = "update"
  /\ dataPositions = 3
  /\ Len(heap[attrPosition]) = 6

\* C3: extractVertices uses the stride max(1, ceil(total / 15000)); the number
\* of vertices it has extracted never exceeds 15000; and once 15000 vertices
\* have been appended, visiting a later mesh part appends nothing.
C3_StrideAndCeiling ==
  [][/\ mgPc' = "extracting"
          => /\ samplingStep' >= 1
             /\ samplingStep' * maxVertices >= totalVertexCount'
             /\ (samplingStep' > 1 => (samplingStep' - 1) * maxVertices < totalVertexCount')
     /\ Len(vertices') <= 3 * maxVertices
     /\ (mgPc = "extracting" /\ Len(vertices) = 3 * maxVertices /\ nodeIdx' = nodeIdx + 1)
          => vertices' = vertices]_vars

\* the ceiling was reached after the second of four mesh parts, and the two
\* parts after it have been visited
C3_Witness ==
  /\ mgPc = "extracting"
  /\ totalVertexCount = 2 * maxVertices
  /\ samplingStep = 2
  /\ Len(scene) = 4
  /\ nodeIdx = 5
  /\ Len(vertices) = 3 * maxVertices

\* C4: when options.particleCount = k > 0 differs from the number of extracted
\* vertices, generate() returns exactly k particles (3k numbers), for k below
\* and for k above the extracted count.
C4_ExactlyRequestedCount ==
  (mgPc = "done" /\ mgCall.method = "generate" /\ mgCall.particleCount # 0
     /\ mgCall.particleCount # Len(vertices) \div 3)
    => Len(result) = 3 * mgCall.particleCount

\* C5: whenever generate() returns fewer particles than options.particleCount
\* asks for, a warning reporting the reduction was emitted during the call.
C5_ReductionIsWarned ==
  (mgPc = "done" /\ mgCall.method = "generate" /\ mgCall.particleCount # 0
     /\ Len(result) \div 3 < mgCall.particleCount)
    => \E w \in 1..Len(warnings) : warnings[w] = "Reduced particle count"

C8_ResampleIdempotent ==
  rsPc = 2
    => /\ Len(rsOnce.out) = 3 * rsTarget
       /\ Len(rsTwice.out) = 3 * rsTarget
       /\ rsOnce.branch = "sample" => rsTwice.out = rsOnce.out

\* C9: generate() fails, and returns no buffer, whenever zero vertices were
\* extracted from the model, for every options.particleCount.
C9_EmptyModelFails ==
  (mgCall.method = "generate" /\ mgPc = "done") => Len(vertices) > 0

\* C10: generateOnSurface makes at most 10 * count raycast attempts and
\* returns exactly count points, each of them a ray hit scaled by `scale` or a
\* copy of a vertex of the buffer extractVertices returned.
C10_SurfaceFillsEverySlot ==
  mgCall.method = "generateOnSurface"
    => /\ attempts <= 10 * SurfaceCount(mgCall)
       /\ mgPc = "done"
            => /\ Len(result) = 3 * SurfaceCount(mgCall)
               /\ \A i \in 0..(SurfaceCount(mgCall) - 1) :
                    \/ /\ i < placed
                       /\ \E hit \in HitPoints : \A c \in 1..3 :
                            result[3 * i + c] = FMul(hit[c], ScaleOf(mgCall))
                    \/ \E j \in 0..((Len(returned) \div 3) - 1) : \A c \in 1..3 :
                         result[3 * i + c] = returned[3 * j + c]

\* C11: initConnections emits one segment (the six coordinates of its two
\* endpoints) for exactly the index pairs (i, j), 0 <= i < j < count, whose
\* reference positions lie within maxDistance of each other: every emitted
\* segment is such a pair, every such pair is emitted, and the segments appear
\* in strictly increasing (i, then j) order, so none appears twice.
C11_SegmentsAreTheNearPairs ==
  (psState = "live" /\ psOptions.connected)
    => LET ref == heap[dataPositions]
           maxDistance == IF psOptions.connectionDistance = 0 THEN Unit
                          ELSE psOptions.connectionDistance
           Has(i) == 3 * i + 3 <= Len(ref)
           Gap(i, j, c) == ref[3 * j + c] - ref[3 * i + c]
           Near(i, j) ==
             /\ Has(i) /\ Has(j)
             /\ \/ maxDistance = Infinity
                \/ Gap(i, j, 1) * Gap(i, j, 1) + Gap(i, j, 2) * Gap(i, j, 2)
                     + Gap(i, j, 3) * Gap(i, j, 3) <= maxDistance * maxDistance
       IN /\ Len(connections) = 6 * Len(connectionPairs)
          /\ \A k \in 1..Len(connectionPairs) :
               LET i == connectionPairs[k][1]
                   j == connectionPairs[k][2]
               IN /\ 0 <= i /\ i < j /\ j < dataCount
                  /\ Near(i, j)
                  /\ \A c \in 1..3 : /\ connections[6 * (k - 1) + c] = ref[3 * i + c]
                                     /\ connections[6 * (k - 1) + 3 + c] = ref[3 * j + c]
          /\ \A i \in 0..(dataCount - 1) : \A j \in (i + 1)..(dataCount - 1) :
               Near(i, j) => \E k \in 1..Len(connectionPairs) : connectionPairs[k] = <<i, j>>
          /\ \A k \in 1..(Len(connectionPairs) - 1) :
               \/ connectionPairs[k][1] < connectionPairs[k + 1][1]
               \/ /\ connectionPairs[k][1] = connectionPairs[k + 1][1]
                  /\ connectionPairs[k][2] < connectionPairs[k + 1][2]

\* four points on a line, one unit apart, connected up to two units: five of
\* the six pairs, the pair (0, 3) left out
C11_Witness ==
  /\ psState = "live"
  /\ psOptions.connected
  /\ psOptions.connectionDistance = 2 * Unit
  /\ dataCount = 4
  /\ connectionPairs = << <<0, 1>>, <<0, 2>>, <<1, 2>>, <<1, 3>>, <<2, 3>> >>
  /\ Len(connections) = 30

\* C12: with connected = true, connectionDistance = 0 on pairwise distinct
\* points yields no connection segment, and connectionDistance = infinity
\* yields all N(N-1)/2 pairs.
C12_ZeroAndInfiniteDistance ==
  (psState = "live" /\ psOptions.connected /\ Len(heap[dataPositions]) = 3 * dataCount)
    => LET ref == heap[dataPositions]
           Distinct == \A i \in 0..(dataCount - 1) : \A j \in (i + 1)..(dataCount - 1) :
                         \E c \in 1..3 : ref[3 * i + c] # ref[3 * j + c]
       IN /\ (psOptions.connectionDistance = 0 /\ Distinct) => Len(connections) = 0
          /\ psOptions.connectionDistance = Infinity
               => Len(connectionPairs) = (dataCount * (dataCount - 1)) \div 2

\* C13: in every state of a constructed ParticleSystem, whatever
\* updatePositions, updateColors, updateSizes and update calls were made,
\* positions has 3 * count numbers, colors has 3 * count, sizes has count, and
\* the working position buffer is as long as the reference positions.
C13_BufferLengths ==
  psState = "live"
    => /\ Len(heap[dataPositions]) = 3 * dataCount
       /\ Len(dataColors) = 3 * dataCount
       /\ Len(dataSizes) = dataCount
       /\ Len(heap[attrPosition]) = Len(heap[dataPositions])

\* C14: every particle size written when a ParticleWeaver creates its cloud is
\* a number >= 0.01, also when the caller's `particle` object omits size or
\* sizeVariation.
C14_SizesAtLeastEpsilon ==
  pwState = "ready"
    => \A i \in 1..Len(pwSizes) : ~IsNaN(pwSizes[i]) /\ pwSizes[i] >= Unit \div 100

\* C15: after option merging every option the caller omitted has its default
\* value, also when the caller gave other options of the same group (camera,
\* renderer, particle).
C15_OmittedOptionsGetDefaults ==
  (pwState # "new" /\ validateOptions(pwGiven) = "none")
    => /\ \A key \in DOMAIN cameraDefaults :
            (pwGiven.camera = Absent \/ key \notin DOMAIN pwGiven.camera[1])
              => (key \in DOMAIN pwOptions.camera /\ pwOptions.camera[key] = cameraDefaults[key])
       /\ \A key \in DOMAIN rendererDefaults :
            (pwGiven.renderer = Absent \/ key \notin DOMAIN pwGiven.renderer[1])
              => (key \in DOMAIN pwOptions.renderer
                    /\ pwOptions.renderer[key] = rendererDefaults[key])
       /\ \A key \in DOMAIN particleDefaults :
            (pwGiven.particle = Absent \/ key \notin DOMAIN pwGiven.particle[1])
              => (key \in DOMAIN pwOptions.particle
                    /\ pwOptions.particle[key] = particleDefaults[key])

\* C16: on every update() tick with animation or interaction enabled, the time
\* accumulator grows by exactly deltaTime * animationSpeed for the configured
\* animationSpeed >= 0, 0 included (time then stays as it is), and never
\* decreases.
C16_TimeGrowsByScaledDelta ==
  [][(psState = "live" /\ ticks' = ticks + 1 /\ ~UpdateSkips(psOptions))
       => /\ time' >= time
          /\ \E deltaTime \in DeltaTimes :
               time' = time + (deltaTime * psOptions.animationSpeed) \div Unit]_vars

\* C17: an update() tick with interaction enabled writes well-defined numbers
\* for every particle whose reference position is well defined, for every
\* pointer position: also for a particle that coincides with the pointer's
\* world point (distance 0), where no division by zero may occur.
C17_NoDivisionByZeroAtPointer ==
  [][(psState = "live" /\ ticks' = ticks + 1 /\ psOptions.interactive)
       => \A k \in 1..Min(3 * dataCount, Len(heap[attrPosition])) :
            IsNaN(ReadAt(heap[dataPositions], k)) \/ ~IsNaN(heap'[attrPosition][k])]_vars

\* C18: for every integer count >= 1, SphereGenerator.generate returns a
\* buffer of exactly 3 * count numbers.
C18_SphereLength ==
  (sgPc = "done" /\ sgCall.count >= 1) => Len(sgResult) = 3 * sgCall.count

\* a call with count 7 has returned
C18_Witness ==
  /\ sgPc = "done"
  /\ sgCall.count = 7
  /\ Len(sgResult) = 21

\* C19: for every count >= 2 and radius r > 0, every point SphereGenerator
\* .generate returns lies at distance r from the origin, within a tolerance of
\* two percent (the model's sine and root are approximations).
C19_PointsOnTheSphere ==
  (sgPc = "done" /\ sgCall.count >= 2 /\ sgCall.radius > 0)
    => \A i \in 0..(sgCall.count - 1) :
         LET x == sgResult[3 * i + 1]
             y == sgResult[3 * i + 2]
             z == sgResult[3 * i + 3]
         IN /\ ~IsNaN(x) /\ ~IsNaN(y) /\ ~IsNaN(z)
            /\ 25 * Abs(x * x + y * y + z * z - sgCall.radius * sgCall.radius)
                 <= sgCall.radius * sgCall.radius

\* ten points on a sphere of radius 2, the second of them off the axis
C19_Witness ==
  /\ sgPc = "done"
  /\ sgCall.count = 10
  /\ sgCall.radius = 2 * Unit
  /\ sgResult[4] # 0
  /\ sgResult[5] # 0
  /\ sgResult[6] # 0

\* C20: SphereGenerator.generate with count = 1 returns one point with
\* well-defined coordinates at distance radius from the origin: the division
\* by count - 1 = 0 is avoided.
C20_SinglePointIsDefined ==
  (sgPc = "done" /\ sgCall.count = 1 /\ sgCall.radius > 0)
    => /\ Len(sgResult) = 3
       /\ \A c \in 1..3 : ~IsNaN(sgResult[c])
       /\ 25 * Abs(sgResult[1] * sgResult[1] + sgResult[2] * sgResult[2]
                     + sgResult[3] * sgResult[3] - sgCall.radius * sgCall.radius)
            <= sgCall.radius * sgCall.radius

\* C21: generateVolume terminates for every behaviour of the random source:
\* every call that entered its loops returns (with its count points stored).
C21_VolumeTerminates ==
  (vgPc = "sampling") ~> (vgPc = "done" /\ vgIndex = vgCall.count)

C27_CacheAtMostTen == Cardinality(modelCache) <= 10

\* C26: in every state of a ParticleSystem with connected = true the
\* connection segments join exactly the pairs of particles that lie within
\* connectionDistance of each other in the current reference positions: ticks
\* leave them as they are, and after updatePositions(p) they are those of p.
C26_SegmentsFollowReference ==
  (psState = "live" /\ psOptions.connected)
    => LET ref == heap[dataPositions]
           d == psOptions.connectionDistance
           Known(i) == \A c \in 1..3 : 3 * i + c <= Len(ref) /\ ~IsNaN(ref[3 * i + c])
           SquaredGap(i, j) ==
             (ref[3 * j + 1] - ref[3 * i + 1]) * (ref[3 * j + 1] - ref[3 * i + 1])
               + (ref[3 * j + 2] - ref[3 * i + 2]) * (ref[3 * j + 2] - ref[3 * i + 2])
               + (ref[3 * j + 3] - ref[3 * i + 3]) * (ref[3 * j + 3] - ref[3 * i + 3])
           near == {pair \in (0..(dataCount - 1)) \X (0..(dataCount - 1)) :
                      /\ pair[1] < pair[2]
                      /\ Known(pair[1]) /\ Known(pair[2])
                      /\ SquaredGap(pair[1], pair[2]) <= d * d}
       IN /\ {connectionPairs[k] : k \in 1..Len(connectionPairs)} = near
          /\ Len(connectionPairs) = Cardinality(near)
          /\ Len(connections) = 6 * Len(connectionPairs)
          /\ \A k \in 1..Len(connectionPairs) : \A c \in 1..3 :
               /\ connections[6 * (k - 1) + c] = ref[3 * connectionPairs[k][1] + c]
               /\ connections[6 * (k - 1) + 3 + c] = ref[3 * connectionPairs[k][2] + c]

\* C25: the working positions an update() tick writes are a function of the
\* reference positions the caller handed over, the accumulated time and the
\* pointer of this tick only, whatever earlier ticks wrote; in particular,
\* with animated = false and interactive = true, a tick without pointer, or
\* with every particle at least mouseRadius away from the pointer, sets every
\* working position to its reference position.
C25_TickDependsOnReferenceOnly ==
  [][(psState = "live" /\ ticks' = ticks + 1 /\ ~UpdateSkips(psOptions))
       => LET written == 1..Min(3 * dataCount, Len(heap'[attrPosition]))
              SquaredGap(i) ==
                FAdd(FAdd(FSquare(FSub(ReadAt(givenPositions, 3 * i + 1), mousePosition'[1])),
                          FSquare(FSub(ReadAt(givenPositions, 3 * i + 2), mousePosition'[2]))),
                     FSquare(FSub(ReadAt(givenPositions, 3 * i + 3), mousePosition'[3])))
              Far(i) == \/ IsNaN(SquaredGap(i))
                        \/ SquaredGap(i) >= psOptions.mouseRadius * psOptions.mouseRadius
          IN /\ \A k \in written :
                  heap'[attrPosition][k]
                    = NewPosition(givenPositions, (k - 1) \div 3, time', mousePosition',
                                  psOptions)[((k - 1) % 3) + 1]
             /\ (/\ ~psOptions.animated
                 /\ psOptions.interactive
                 /\ \/ mousePosition' = NoPointer
                    \/ \A i \in 0..(dataCount - 1) : Far(i))
                  => \A k \in written : heap'[attrPosition][k] = ReadAt(givenPositions, k)]_vars

\* C24 (amended): constructing a ParticleWeaver with a falsy target (missing,
\* or given as the empty string) throws 'ParticleWeaver: target element is
\* required', and with any other target that is not an HTMLElement throws
\* 'ParticleWeaver: target must be a valid HTMLElement'; in both cases no
\* renderer has been created, no canvas attached, no event listener registered
\* and no animation frame requested.
C24_TargetIsValidatedFirst ==
  (pwState # "new" /\ pwGiven.target # "element")
    => /\ pwState = "failed"
       /\ Falsy(pwGiven.target) => pwError = "ParticleWeaver: target element is required"
       /\ ~Falsy(pwGiven.target)
            => pwError = "ParticleWeaver: target must be a valid HTMLElement"
       /\ pwRenderer = "none"
       /\ ~pwCanvasAttached
       /\ pwListeners = {}
       /\ pwFrameQueue = {}
       /\ pwFrames = 0
       /\ animationId = 0
       /\ pwRenders = 0
       /\ particleSystem = "none"

\* C24 as stated: a missing target throws 'ParticleWeaver: target element is
\* required' and every given target that is not an HTMLElement throws
\* 'ParticleWeaver: target must be a valid HTMLElement', in both cases before
\* anything is created.
C24_AsStated ==
  (pwState # "new" /\ pwGiven.target # "element")
    => /\ pwState = "failed"
       /\ pwGiven.target = "missing" => pwError = "ParticleWeaver: target element is required"
       /\ pwGiven.target # "missing"
            => pwError = "ParticleWeaver: target must be a valid HTMLElement"
       /\ pwRenderer = "none" /\ ~pwCanvasAttached /\ pwListeners = {} /\ pwFrames = 0

\* a constructor call with the empty string as target has thrown
C24_Witness ==
  /\ pwState = "failed"
  /\ pwGiven.target = "empty"
  /\ pwGiven.webgl
  /\ pwError = "ParticleWeaver: target element is required"
  /\ pwRenderer = "none"

\* C22: once dispose() has returned, no animation frame is scheduled, and
\* animate() makes no further particleSystem.update or renderer.render call,
\* wherever dispose() falls between the frame callbacks.
C22_NoFrameAfterDispose ==
  [][pwState' = "disposed"
       => /\ pwFrameQueue' = {}
          /\ animationId' = 0
          /\ pwState = "disposed" => (pwUpdates' = pwUpdates /\ pwRenders' = pwRenders)]_vars

\* dispose() was called after two frame callbacks had run on a weaver with
\* particles, and a window event was handled after it
C22_Witness ==
  /\ pwState = "disposed"
  /\ pwFrames = 3
  /\ pwUpdates = 2
  /\ pwRenders = 3
  /\ particleSystem = "disposed"
  /\ pwResizes > 0
  /\ pwFrameQueue = {}

\* C23: when the model generation the constructor started has failed, the
\* failure has been delivered to the caller of new ParticleWeaver (as the
\* error the constructor threw; the caller holds no promise), and no
\* particle system has been created or added to the scene.
C23_ModelFailureReachesCaller ==
  pwLoad = "failed"
    => /\ pwError # "none"
       /\ particleSystem = "none"
       /\ pwSceneObjects = 0

\* C28: once dispose() has returned, no particle system is created and nothing
\* is added to the scene, also when a model load started by the constructor
\* completes later.
C28_NoSystemAfterDispose ==
  [][pwState = "disposed"
       => /\ particleSystem' = particleSystem
          /\ pwSceneObjects' = pwSceneObjects
          /\ pwSizes' = pwSizes]_vars

\* C29: after dispose() none of the event listeners the instance registered is
\* still registered: not the two window 'resize' listeners, not the canvas
\* 'mousemove' and 'mouseleave' listeners; no handler runs after dispose().
C29_ListenersRemoved ==
  [][pwState' = "disposed"
       => /\ pwListeners' = {}
          /\ pwState = "disposed" => pwResizes' = pwResizes]_vars

====
